---- MODULE Spec2Model ----
(***************************************************************************)
(* ProblemSearchEngine (client/src/lib/searchEngine.ts): an in-memory      *)
(* inverted index over coding-problem records with ranked search,          *)
(* autocomplete and statistics.                                            *)
(*                                                                         *)
(* A JavaScript string is a sequence of one-character strings.  A Map or   *)
(* a Set, which iterate in insertion order, is a sequence without          *)
(* repeated keys or elements.                                               *)
(***************************************************************************)
EXTENDS Integers, Sequences, FiniteSets, TLC

\* ------------------------------------------------------------------------
\* Bounds of the exploration
\* ------------------------------------------------------------------------
MaxProblems == 2
MaxQueryLen == 3
MaxBound == 2
MaxServed == 1
ScenarioBound == 10
MaxTextLen == 3
MaxCalls == 2

\* ------------------------------------------------------------------------
\* Characters and the JavaScript string built-ins the engine calls
\* ------------------------------------------------------------------------
Whitespace == {" ", "\t"}

LowerAlnum ==
  {"a", "b", "c", "d", "e", "f", "g", "h", "i", "j", "k", "l", "m",
   "n", "o", "p", "q", "r", "s", "t", "u", "v", "w", "x", "y", "z",
   "0", "1", "2", "3", "4", "5", "6", "7", "8", "9"}

\* String.prototype.toLowerCase on the letters A-Z, on the accented capital
\* U+00C9 and on the Kelvin sign U+212A, whose lowercase form is the ASCII
\* letter k; every other character of the texts below is its own lowercase
\* form.  A character outside ASCII is written as its code point.
UpperToLower ==
  "A" :> "a" @@ "B" :> "b" @@ "C" :> "c" @@ "D" :> "d" @@ "E" :> "e"
  @@ "F" :> "f" @@ "G" :> "g" @@ "H" :> "h" @@ "I" :> "i" @@ "J" :> "j"
  @@ "K" :> "k" @@ "L" :> "l" @@ "M" :> "m" @@ "N" :> "n" @@ "O" :> "o"
  @@ "P" :> "p" @@ "Q" :> "q" @@ "R" :> "r" @@ "S" :> "s" @@ "T" :> "t"
  @@ "U" :> "u" @@ "V" :> "v" @@ "W" :> "w" @@ "X" :> "x" @@ "Y" :> "y"
  @@ "Z" :> "z" @@ "U+00C9" :> "U+00E9" @@ "U+212A" :> "k"

LowerOf(c) == IF c \in DOMAIN UpperToLower THEN UpperToLower[c] ELSE c

RECURSIVE ToLowerCase(_)
ToLowerCase(s) ==
  IF s = <<>> THEN <<>> ELSE <<LowerOf(Head(s))>> \o ToLowerCase(Tail(s))

RECURSIVE TrimStart(_)
TrimStart(s) ==
  IF s = <<>> THEN <<>>
  ELSE IF Head(s) \in Whitespace THEN TrimStart(Tail(s)) ELSE s

RECURSIVE TrimEnd(_)
TrimEnd(s) ==
  IF s = <<>> THEN <<>>
  ELSE IF s[Len(s)] \in Whitespace THEN TrimEnd(SubSeq(s, 1, Len(s) - 1)) ELSE s

Trim(s) == TrimEnd(TrimStart(s))

StartsWith(s, w) == Len(w) <= Len(s) /\ SubSeq(s, 1, Len(w)) = w

Includes(s, w) ==
  \E i \in 1..(Len(s) - Len(w) + 1) : SubSeq(s, i, i + Len(w) - 1) = w

\* A slice that forgets its end.
SliceAll(arr, end) == arr

\* Array.prototype.slice(0, end): a negative end counts from the end.
Slice0(arr, end) ==
  LET n == Len(arr)
      k == IF end < 0 THEN (IF n + end < 0 THEN 0 ELSE n + end)
           ELSE (IF end > n THEN n ELSE end)
  IN SubSeq(arr, 1, k)

\* ------------------------------------------------------------------------
\* tokenize
\* ------------------------------------------------------------------------
\* A tokenizer that deletes the characters it is to replace by a space.
RECURSIVE ReplaceNonWordByNothing(_)
ReplaceNonWordByNothing(s) ==
  IF s = <<>> THEN <<>>
  ELSE (IF Head(s) \in LowerAlnum \cup Whitespace THEN <<Head(s)>> ELSE <<>>)
       \o ReplaceNonWordByNothing(Tail(s))

RECURSIVE ReplaceNonWord(_)
ReplaceNonWord(s) ==
  IF s = <<>> THEN <<>>
  ELSE <<IF Head(s) \in LowerAlnum \cup Whitespace THEN Head(s) ELSE " ">>
       \o ReplaceNonWord(Tail(s))

\* String.prototype.split(/\s+/): the pieces between maximal whitespace runs,
\* empty pieces at either end included.
RECURSIVE SplitFrom(_, _, _, _)
SplitFrom(s, i, cur, inRun) ==
  IF i > Len(s) THEN <<cur>>
  ELSE IF s[i] \in Whitespace
       THEN IF inRun THEN SplitFrom(s, i + 1, cur, TRUE)
            ELSE <<cur>> \o SplitFrom(s, i + 1, <<>>, TRUE)
       ELSE SplitFrom(s, i + 1, Append(cur, s[i]), FALSE)

SplitWhitespace(s) == SplitFrom(s, 1, <<>>, FALSE)

RECURSIVE FilterNonEmpty(_)
FilterNonEmpty(words) ==
  IF words = <<>> THEN <<>>
  ELSE (IF Len(Head(words)) > 0 THEN <<Head(words)>> ELSE <<>>)
       \o FilterNonEmpty(Tail(words))

tokenize(text) ==
  FilterNonEmpty(SplitWhitespace(ReplaceNonWord(ToLowerCase(text))))

\* ------------------------------------------------------------------------
\* Records
\* ------------------------------------------------------------------------
DifficultyName(d) ==
  CASE d = "Easy" -> <<"E", "a", "s", "y">>
    [] d = "Medium" -> <<"M", "e", "d", "i", "u", "m">>
    [] d = "Hard" -> <<"H", "a", "r", "d">>

Problem(title, topics, difficulty, id) ==
  [title |-> title, topics |-> topics, difficulty |-> difficulty,
   frontend_id |-> id]

ProblemPool ==
  { Problem(<<"A">>, << <<"A">>, <<"b", "a">> >>, "Easy", <<"1">>),
    Problem(<<"a", "b", " ", "a", "a">>, << <<"a", "B", "a">>, <<"a", "B", "a">> >>,
            "Medium", <<"B">>),
    Problem(<<"b", "-", " ", "a">>, <<>>, "Hard", <<"2">>) }

\* The texts of a record.
FieldsOf(problem) ==
  {problem.title, DifficultyName(problem.difficulty), problem.frontend_id}
    \cup { problem.topics[j] : j \in 1..Len(problem.topics) }

RECURSIVE SeqsUpTo(_, _)
SeqsUpTo(S, n) ==
  IF n = 0 THEN {<<>>}
  ELSE LET shorter == SeqsUpTo(S, n - 1)
       IN shorter \cup {Append(s, x) : s \in {t \in shorter : Len(t) = n - 1}, x \in S}

ProblemSeqs == SeqsUpTo(ProblemPool, MaxProblems)

QueryChars == {"a", "B", " ", "-"}

Bounds == (0 - MaxBound)..MaxBound

\* The two records of the specification's scenario, its queries and some
\* more, and the bounds of its calls.
ScenarioProblems ==
  << Problem(<<"T", "w", "o", " ", "S", "u", "m">>,
             << <<"A", "r", "r", "a", "y">>,
                <<"H", "a", "s", "h", " ", "T", "a", "b", "l", "e">> >>,
             "Easy", <<"1">>),
     Problem(<<"N", "u", "m", "b", "e", "r", " ", "o", "f", " ", "I", "s", "l", "a", "n", "d", "s">>,
             << <<"G", "r", "a", "p", "h">> >>, "Medium", <<"2", "0", "0">>) >>

ScenarioQueries ==
  { <<"e", "a", "s", "y">>, <<"s", "u", "m">>, <<"i", "s">>,
    <<"2", "0", "0">>, <<"H", "a", "s", "h", " ", "t">>, <<"g", "r", "a", "p", "h">>,
    <<"M", "e", "d">> }

ScenarioBounds == {1, ScenarioBound}

\* The texts given to the tokenizer: letters of both cases, a digit, the two
\* kinds of whitespace, punctuation, and letters outside ASCII.
TextChars == {"a", "B", "1", " ", "\t", "-", "U+00C9", "U+212A"}

Texts == SeqsUpTo(TextChars, MaxTextLen)

\* The calls a host runs at the same time on one engine.
CallIds == 1..MaxCalls

ConcurrentCalls ==
  { [kind |-> "search", query |-> <<"a">>, max |-> 1],
    [kind |-> "search", query |-> <<"a", " ", "B">>, max |-> MaxBound],
    [kind |-> "autocomplete", query |-> <<"a">>, max |-> 1],
    [kind |-> "autocomplete", query |-> <<"B">>, max |-> MaxBound] }

\* The queries put to a pair of engines built from the same records.
TwinQueries == {<<"a">>, <<"a", " ", "B">>}

\* ------------------------------------------------------------------------
\* State
\* ------------------------------------------------------------------------
VARIABLES
  engine,       \* "Uninitialized" until the constructor has returned, then "Ready"
  problems,     \* this.problems
  index,        \* this.index: sequence of [key, indices] in insertion order
  isLoading,    \* Home: the load of the problem data has not finished
  query,        \* the query string of the call being made
  lastOp,       \* the operation that returned last: "none", "search", ...
  maxArg,       \* maxResults / maxSuggestions of the call that returned last
  queryWords,   \* the tokens of the text tokenize was applied to last
  scores,       \* the score accumulator of the search call that returned last
  results,      \* the value returned by search
  suggestions,  \* the value returned by autocomplete
  stats,        \* the value returned by getStats
  twin,         \* a second engine constructed from the same records, and
                \* what it returned last: [problems, index, results, suggestions]
  served,       \* the queries each of the two engines has served before
  calls         \* the calls in progress on the one engine when a host runs
                \* several at a time: the locals of each and where it stands

vars == <<engine, problems, index, isLoading, query, lastOp, maxArg, queryWords,
          scores, results, suggestions, stats, twin, served, calls>>

\* ------------------------------------------------------------------------
\* buildIndex
\* ------------------------------------------------------------------------
HasKey(idx, word) == \E i \in 1..Len(idx) : idx[i].key = word

KeyPos(idx, word) == CHOOSE i \in 1..Len(idx) : idx[i].key = word

GetKey(idx, word) == idx[KeyPos(idx, word)].indices

SeqHas(s, x) == \E i \in 1..Len(s) : s[i] = x

SetAdd(s, x) == IF SeqHas(s, x) THEN s ELSE Append(s, x)

\* if (!index.has(word)) index.set(word, new Set()); index.get(word).add(pos)
IndexAdd(idx, word, pos) ==
  LET withKey == IF HasKey(idx, word) THEN idx
                 ELSE Append(idx, [key |-> word, indices |-> <<>>])
      i == KeyPos(withKey, word)
  IN [withKey EXCEPT ![i].indices = SetAdd(@, pos)]

RECURSIVE TopicWords(_)
TopicWords(topics) ==
  IF topics = <<>> THEN <<>>
  ELSE tokenize(Head(topics)) \o TopicWords(Tail(topics))

\* A builder that normalises the identifier like the other fields.
IndexWordsTokenizedId(problem) ==
  tokenize(problem.title)
    \o TopicWords(problem.topics)
    \o <<ToLowerCase(DifficultyName(problem.difficulty))>>
    \o tokenize(problem.frontend_id)

\* A builder that leaves the difficulty out.
IndexWordsNoDifficulty(problem) ==
  tokenize(problem.title)
    \o TopicWords(problem.topics)
    \o <<problem.frontend_id>>

\* The keys one record is filed under, in the order buildIndex files them.
IndexWords(problem) ==
  tokenize(problem.title)
    \o TopicWords(problem.topics)
    \o <<ToLowerCase(DifficultyName(problem.difficulty))>>
    \o <<problem.frontend_id>>

RECURSIVE IndexAddAll(_, _, _)
IndexAddAll(idx, words, pos) ==
  IF words = <<>> THEN idx
  ELSE IndexAddAll(IndexAdd(idx, Head(words), pos), Tail(words), pos)

RECURSIVE buildIndexFrom(_, _, _)
buildIndexFrom(idx, ps, i) ==
  IF i > Len(ps) THEN idx
  ELSE buildIndexFrom(IndexAddAll(idx, IndexWords(ps[i]), i - 1), ps, i + 1)

\* A builder that starts from a placeholder entry instead of an empty map.
buildIndexFromPlaceholder(ps) ==
  buildIndexFrom(<<[key |-> <<>>, indices |-> <<>>]>>, ps, 1)

buildIndex(ps) == buildIndexFrom(<<>>, ps, 1)

\* ------------------------------------------------------------------------
\* search
\* ------------------------------------------------------------------------
HasScore(sc, pos) == \E i \in 1..Len(sc) : sc[i].idx = pos

\* An accumulator that keeps its labels in a list instead of a set.
BumpListingLabels(sc, pos, points, label) ==
  LET withEntry == IF HasScore(sc, pos) THEN sc
                   ELSE Append(sc, [idx |-> pos, score |-> 0, matchedFields |-> <<>>])
      i == CHOOSE j \in 1..Len(withEntry) : withEntry[j].idx = pos
  IN [withEntry EXCEPT ![i].score = @ + points,
                       ![i].matchedFields = Append(@, label)]

\* if (!scores.has(idx)) scores.set(idx, {score: 0, matchedFields: new Set()});
\* entry.score += points; entry.matchedFields.add(label)
Bump(sc, pos, points, label) ==
  LET withEntry == IF HasScore(sc, pos) THEN sc
                   ELSE Append(sc, [idx |-> pos, score |-> 0, matchedFields |-> <<>>])
      i == CHOOSE j \in 1..Len(withEntry) : withEntry[j].idx = pos
  IN [withEntry EXCEPT ![i].score = @ + points,
                       ![i].matchedFields = SetAdd(@, label)]

RECURSIVE BumpAll(_, _, _, _)
BumpAll(sc, indices, points, label) ==
  IF indices = <<>> THEN sc
  ELSE BumpAll(Bump(sc, Head(indices), points, label), Tail(indices), points, label)

ExactPoints == 10
PrefixPoints == 5
ContainsPoints == 2

ExactMatch(sc, idx, word) ==
  IF HasKey(idx, word) THEN BumpAll(sc, GetKey(idx, word), ExactPoints, "exact")
  ELSE sc

PrefixCond(indexWord, word) == StartsWith(indexWord, word) /\ indexWord # word

\* A contains rule that does not leave the prefix matches out.
ContainsCondAnySubstring(indexWord, word) == Includes(indexWord, word)

ContainsCond(indexWord, word) ==
  Includes(indexWord, word) /\ ~StartsWith(indexWord, word)

\* A prefix scan that creates the entry of every position it passes, before
\* it tests the key.
RECURSIVE PrefixMatchTouchingAll(_, _, _, _)
PrefixMatchTouchingAll(sc, idx, i, word) ==
  IF Len(sc) >= 0 /\ i > Len(idx) THEN sc
  ELSE PrefixMatchTouchingAll(
         IF PrefixCond(idx[i].key, word)
         THEN BumpAll(sc, idx[i].indices, PrefixPoints, "prefix")
         ELSE BumpAll(sc, idx[i].indices, 0, "prefix"),
         idx, i + 1, word)

\* this.index.forEach over the keys in insertion order.  The accumulator is
\* looked at in every step (Len(sc)), so that it is evaluated as the scan
\* goes and not as one nested expression at the end.
RECURSIVE PrefixMatch(_, _, _, _)
PrefixMatch(sc, idx, i, word) ==
  IF Len(sc) >= 0 /\ i > Len(idx) THEN sc
  ELSE PrefixMatch(IF PrefixCond(idx[i].key, word)
                   THEN BumpAll(sc, idx[i].indices, PrefixPoints, "prefix")
                   ELSE sc,
                   idx, i + 1, word)

RECURSIVE ContainsMatch(_, _, _, _)
ContainsMatch(sc, idx, i, word) ==
  IF Len(sc) >= 0 /\ i > Len(idx) THEN sc
  ELSE ContainsMatch(IF ContainsCond(idx[i].key, word)
                     THEN BumpAll(sc, idx[i].indices, ContainsPoints, "contains")
                     ELSE sc,
                     idx, i + 1, word)

ScoreWord(sc, idx, word) ==
  ContainsMatch(PrefixMatch(ExactMatch(sc, idx, word), idx, 1, word), idx, 1, word)

RECURSIVE Accumulate(_, _, _)
Accumulate(sc, idx, words) ==
  IF words = <<>> THEN sc
  ELSE Accumulate(ScoreWord(sc, idx, Head(words)), idx, Tail(words))

ToResult(ps, entry) ==
  [problem |-> ps[entry.idx + 1], score |-> entry.score,
   matchedFields |-> entry.matchedFields]

RECURSIVE MapResults(_, _)
MapResults(ps, sc) ==
  IF sc = <<>> THEN <<>>
  ELSE <<ToResult(ps, Head(sc))>> \o MapResults(ps, Tail(sc))

\* A comparator with its operands exchanged: ascending order.
CompareAscending(a, b) == a.score - b.score

\* The comparator of the sort: (a, b) => b.score - a.score.
Compare(a, b) == b.score - a.score

\* An unstable sort: an element goes before the elements it ties with.
RECURSIVE InsertSortedBeforeTies(_, _)
InsertSortedBeforeTies(sorted, x) ==
  IF sorted = <<>> THEN <<x>>
  ELSE IF Compare(Head(sorted), x) < 0
       THEN <<Head(sorted)>> \o InsertSortedBeforeTies(Tail(sorted), x)
       ELSE <<x>> \o sorted

\* Array.prototype.sort is stable: an element goes after every element it
\* does not have to precede.
RECURSIVE InsertSorted(_, _)
InsertSorted(sorted, x) ==
  IF sorted = <<>> THEN <<x>>
  ELSE IF Compare(Head(sorted), x) <= 0
       THEN <<Head(sorted)>> \o InsertSorted(Tail(sorted), x)
       ELSE <<x>> \o sorted

RECURSIVE SortFrom(_, _)
SortFrom(sorted, rest) ==
  IF rest = <<>> THEN sorted
  ELSE SortFrom(InsertSorted(sorted, Head(rest)), Tail(rest))

\* No sort at all: accumulation order.
SortSkipped(arr) == arr

SortByScore(arr) == SortFrom(<<>>, arr)

\* const queryWords = this.tokenize(query), after the guard.
searchWords(q) == IF Trim(q) = <<>> THEN <<>> ELSE tokenize(q)

\* A search that keeps the empty pieces of the split as query words.
searchScoresUnfiltered(idx, q) ==
  IF Trim(q) = <<>> THEN <<>>
  ELSE Accumulate(<<>>, idx, SplitWhitespace(ReplaceNonWord(ToLowerCase(q))))

searchScores(idx, q) ==
  IF Trim(q) = <<>> THEN <<>> ELSE Accumulate(<<>>, idx, tokenize(q))

search(ps, idx, q, maxResults) ==
  IF Trim(q) = <<>> THEN <<>>
  ELSE Slice0(SortByScore(MapResults(ps, searchScores(idx, q))), maxResults)

\* ------------------------------------------------------------------------
\* autocomplete
\* ------------------------------------------------------------------------
\* A title scan that compares the title as written.
RECURSIVE MatchingTitlesCaseSensitive(_, _, _)
MatchingTitlesCaseSensitive(sugg, ps, queryLower) ==
  IF ps = <<>> THEN sugg
  ELSE MatchingTitlesCaseSensitive(IF Includes(Head(ps).title, queryLower)
                                   THEN SetAdd(sugg, Head(ps).title) ELSE sugg,
                                   Tail(ps), queryLower)

RECURSIVE MatchingTitles(_, _, _)
MatchingTitles(sugg, ps, queryLower) ==
  IF ps = <<>> THEN sugg
  ELSE MatchingTitles(IF Includes(ToLowerCase(Head(ps).title), queryLower)
                      THEN SetAdd(sugg, Head(ps).title) ELSE sugg,
                      Tail(ps), queryLower)

\* A topic scan that collects into a list instead of a set.
RECURSIVE MatchingTopicsOfListed(_, _, _)
MatchingTopicsOfListed(sugg, topics, queryLower) ==
  IF topics = <<>> THEN sugg
  ELSE MatchingTopicsOfListed(IF Includes(ToLowerCase(Head(topics)), queryLower)
                              THEN Append(sugg, Head(topics)) ELSE sugg,
                              Tail(topics), queryLower)

RECURSIVE MatchingTopicsOf(_, _, _)
MatchingTopicsOf(sugg, topics, queryLower) ==
  IF topics = <<>> THEN sugg
  ELSE MatchingTopicsOf(IF Includes(ToLowerCase(Head(topics)), queryLower)
                        THEN SetAdd(sugg, Head(topics)) ELSE sugg,
                        Tail(topics), queryLower)

RECURSIVE MatchingTopics(_, _, _)
MatchingTopics(sugg, ps, queryLower) ==
  IF ps = <<>> THEN sugg
  ELSE MatchingTopics(MatchingTopicsOf(sugg, Head(ps).topics, queryLower),
                      Tail(ps), queryLower)

\* An autocomplete without the blank-query guard.
autocompleteUnguarded(ps, q, maxSuggestions) ==
  LET queryLower == ToLowerCase(q)
  IN Slice0(MatchingTopics(MatchingTitles(<<>>, ps, queryLower), ps, queryLower),
            maxSuggestions)

autocomplete(ps, q, maxSuggestions) ==
  IF Trim(q) = <<>> THEN <<>>
  ELSE LET queryLower == ToLowerCase(q)
       IN Slice0(MatchingTopics(MatchingTitles(<<>>, ps, queryLower), ps, queryLower),
                 maxSuggestions)

\* ------------------------------------------------------------------------
\* getStats
\* ------------------------------------------------------------------------
\* A count that compares the lowercased difficulty name with the name.
CountDifficultyLowered(ps, d) ==
  Cardinality({i \in 1..Len(ps) :
                 ToLowerCase(DifficultyName(ps[i].difficulty)) = DifficultyName(d)})

CountDifficulty(ps, d) == Cardinality({i \in 1..Len(ps) : ps[i].difficulty = d})

getStats(ps, idx) ==
  [totalProblems |-> Len(ps),
   indexSize |-> Len(idx),
   difficulties |-> [easy |-> CountDifficulty(ps, "Easy"),
                     medium |-> CountDifficulty(ps, "Medium"),
                     hard |-> CountDifficulty(ps, "Hard")]]

\* A call slot no call is running in.
NoCall ==
  [pc |-> "idle", kind |-> "none", query |-> <<>>, max |-> 0, words |-> <<>>,
   w |-> 1, rule |-> 0, scores |-> <<>>, suggestions |-> <<>>, out |-> <<>>]

NoTwin ==
  [problems |-> <<>>, index |-> <<>>, results |-> <<>>, suggestions |-> <<>>]

NoStats == [totalProblems |-> 0, indexSize |-> 0]

\* ------------------------------------------------------------------------
\* Actions
\* ------------------------------------------------------------------------
Init ==
  /\ engine = "Uninitialized"
  /\ problems = <<>>
  /\ index = <<>>
  /\ isLoading = TRUE
  /\ query = <<>>
  /\ lastOp = "none"
  /\ maxArg = 0
  /\ queryWords = <<>>
  /\ scores = <<>>
  /\ results = <<>>
  /\ suggestions = <<>>
  /\ stats = NoStats
  /\ twin = NoTwin
  /\ served = <<<<>>, <<>>>>
  /\ calls = [c \in CallIds |-> NoCall]

\* Home.loadProblems, the load succeeds: new ProblemSearchEngine(ps), then
\* setSearchEngine(engine).
Construct ==
  /\ engine = "Uninitialized"
  /\ isLoading
  /\ \E ps \in ProblemSeqs :
       /\ problems' = ps
       /\ index' = buildIndex(ps)
  /\ engine' = "Ready"
  /\ isLoading' = FALSE
  /\ UNCHANGED <<query, lastOp, maxArg, queryWords, scores, results,
                 suggestions, stats>>
  /\ UNCHANGED <<twin, served, calls>>

\* A failed load that stores the engine as far as its constructor got: the
\* index lacks the last record.
LoadFailsPartial ==
  /\ engine = "Uninitialized"
  /\ isLoading
  /\ isLoading' = FALSE
  /\ \E ps \in ProblemSeqs :
       /\ ps # <<>>
       /\ problems' = ps
       /\ index' = buildIndex(SubSeq(ps, 1, Len(ps) - 1))
  /\ engine' = "Ready"
  /\ UNCHANGED <<query, lastOp, maxArg, queryWords, scores, results,
                 suggestions, stats>>
  /\ UNCHANGED <<twin, served, calls>>

\* Home.loadProblems, the fetch or the constructor throws: the catch branch
\* logs, no engine is stored, and an index the constructor had begun is
\* unreachable with it.
LoadFails ==
  /\ engine = "Uninitialized"
  /\ isLoading
  /\ isLoading' = FALSE
  /\ UNCHANGED <<engine, problems, index, query, lastOp, maxArg, queryWords, scores,
                 results, suggestions, stats>>
  /\ UNCHANGED <<twin, served, calls>>

\* The caller sets the query string of its next call, one character at a
\* time.  Calls do not overlap: each method runs to completion, and the
\* caller prepares the next call after it has dropped what the previous one
\* returned.
TypeChar ==
  /\ lastOp = "none"
  /\ Len(query) < MaxQueryLen
  /\ \A i \in 1..Len(query) : query[i] \in QueryChars
  /\ \E c \in QueryChars : query' = Append(query, c)
  /\ UNCHANGED <<engine, problems, index, isLoading, lastOp, maxArg, queryWords,
                 scores, results, suggestions, stats>>
  /\ UNCHANGED <<twin, served, calls>>

\* The caller takes the text of a record as its query: a title or a topic
\* (Home.handleSuggestionClick), a difficulty name or an identifier.
PasteQuery ==
  /\ engine = "Ready"
  /\ lastOp = "none"
  /\ \E i \in 1..Len(problems) : \E text \in FieldsOf(problems[i]) :
       /\ text # query
       /\ query' = text
  /\ UNCHANGED <<engine, problems, index, isLoading, lastOp, maxArg, queryWords,
                 scores, results, suggestions, stats>>
  /\ UNCHANGED <<twin, served, calls>>

ClearQuery ==
  /\ lastOp = "none"
  /\ query # <<>>
  /\ query' = <<>>
  /\ UNCHANGED <<engine, problems, index, isLoading, lastOp, maxArg, queryWords,
                 scores, results, suggestions, stats>>
  /\ UNCHANGED <<twin, served, calls>>

\* The returned value goes out of use; the query queryWords and the score
\* accumulator of a search are garbage once search has returned.
Discard ==
  /\ lastOp # "none"
  /\ lastOp' = "none"
  /\ maxArg' = 0
  /\ queryWords' = <<>>
  /\ scores' = <<>>
  /\ results' = <<>>
  /\ suggestions' = <<>>
  /\ stats' = NoStats
  /\ UNCHANGED <<engine, problems, index, isLoading, query>>
  /\ UNCHANGED <<twin, served, calls>>

\* A search that creates an empty entry for the first query word it looks
\* up: if (!index.has(word)) index.set(word, new Set()).
SearchCreatingKeys ==
  /\ engine = "Ready"
  /\ lastOp = "none"
  /\ \E maxResults \in Bounds :
       /\ maxArg' = maxResults
       /\ results' = search(problems, index, query, maxResults)
  /\ queryWords' = searchWords(query)
  /\ scores' = searchScores(index, query)
  /\ lastOp' = "search"
  /\ suggestions' = <<>>
  /\ stats' = NoStats
  /\ index' = LET looked == searchWords(query)
               IN IF looked = <<>> \/ HasKey(index, Head(looked)) THEN index
                  ELSE Append(index, [key |-> Head(looked), indices |-> <<>>])
  /\ UNCHANGED <<engine, problems, isLoading, query>>
  /\ UNCHANGED <<twin, served, calls>>

Search ==
  /\ engine = "Ready"
  /\ lastOp = "none"
  /\ \E maxResults \in Bounds :
       /\ maxArg' = maxResults
       /\ results' = search(problems, index, query, maxResults)
  /\ queryWords' = searchWords(query)
  /\ scores' = searchScores(index, query)
  /\ lastOp' = "search"
  /\ suggestions' = <<>>
  /\ stats' = NoStats
  /\ UNCHANGED <<engine, problems, index, isLoading, query>>
  /\ UNCHANGED <<twin, served, calls>>

\* Home.handleSearch while no engine is stored: setResults([]).
HandleSearchNoEngine ==
  /\ engine = "Uninitialized"
  /\ lastOp = "none"
  /\ results' = <<>>
  /\ lastOp' = "handleSearch"
  /\ UNCHANGED <<engine, problems, index, isLoading, query, maxArg, queryWords,
                 scores, suggestions, stats>>
  /\ UNCHANGED <<twin, served, calls>>

Autocomplete ==
  /\ engine = "Ready"
  /\ lastOp = "none"
  /\ \E maxSuggestions \in Bounds :
       /\ maxArg' = maxSuggestions
       /\ suggestions' = autocomplete(problems, query, maxSuggestions)
  /\ lastOp' = "autocomplete"
  /\ queryWords' = <<>>
  /\ scores' = <<>>
  /\ results' = <<>>
  /\ stats' = NoStats
  /\ UNCHANGED <<engine, problems, index, isLoading, query>>
  /\ UNCHANGED <<twin, served, calls>>

GetStats ==
  /\ engine = "Ready"
  /\ lastOp = "none"
  /\ stats' = getStats(problems, index)
  /\ lastOp' = "getStats"
  /\ maxArg' = 0
  /\ queryWords' = <<>>
  /\ scores' = <<>>
  /\ results' = <<>>
  /\ suggestions' = <<>>
  /\ UNCHANGED <<engine, problems, index, isLoading, query>>
  /\ UNCHANGED <<twin, served, calls>>

Next ==
  \/ Construct
  \/ LoadFails
  \/ TypeChar
  \/ PasteQuery
  \/ ClearQuery
  \/ Discard
  \/ Search
  \/ HandleSearchNoEngine
  \/ Autocomplete
  \/ GetStats

Spec == Init /\ [][Next]_vars

\* ------------------------------------------------------------------------
\* Two engines over the same records
\* ------------------------------------------------------------------------
\* new ProblemSearchEngine(ps), twice, from the same record sequence.
TwinConstruct ==
  /\ engine = "Uninitialized"
  /\ \E ps \in ProblemSeqs :
       /\ problems' = ps
       /\ index' = buildIndex(ps)
       /\ twin' = [twin EXCEPT !.problems = ps, !.index = buildIndex(ps)]
  /\ engine' = "Ready"
  /\ isLoading' = FALSE
  /\ UNCHANGED <<query, lastOp, maxArg, queryWords, scores, results,
                 suggestions, stats, served>>
  /\ UNCHANGED calls

\* The first engine serves a search whose value the caller drops at once.
\* A search that files the words of its query in the index.
TwinServe1Filing ==
  /\ engine = "Ready"
  /\ lastOp = "none"
  /\ Len(served[1]) < MaxServed
  /\ \E q \in TwinQueries :
       /\ served' = [served EXCEPT ![1] = Append(@, q)]
       /\ index' = IF problems = <<>> THEN index
                   ELSE IndexAddAll(index, tokenize(q), Len(problems) - 1)
  /\ UNCHANGED <<engine, problems, isLoading, query, lastOp, maxArg,
                 queryWords, scores, results, suggestions, stats, twin>>
  /\ UNCHANGED calls

\* search reads this.index and this.problems and assigns neither; its
\* accumulator and its result are locals of the call.
TwinServe1 ==
  /\ engine = "Ready"
  /\ lastOp = "none"
  /\ Len(served[1]) < MaxServed
  /\ \E q \in TwinQueries : served' = [served EXCEPT ![1] = Append(@, q)]
  /\ UNCHANGED <<engine, problems, index, isLoading, query, lastOp, maxArg,
                 queryWords, scores, results, suggestions, stats, twin>>
  /\ UNCHANGED calls

\* The second engine serves a search whose value the caller drops at once.
TwinServe2 ==
  /\ engine = "Ready"
  /\ lastOp = "none"
  /\ Len(served[2]) < MaxServed
  /\ \E q \in TwinQueries : served' = [served EXCEPT ![2] = Append(@, q)]
  /\ UNCHANGED <<engine, problems, index, isLoading, query, lastOp, maxArg,
                 queryWords, scores, results, suggestions, stats, twin>>
  /\ UNCHANGED calls

\* The same search(q, k) is put to both engines.
TwinSearch ==
  /\ engine = "Ready"
  /\ lastOp = "none"
  /\ \E q \in TwinQueries, maxResults \in Bounds :
       /\ query' = q
       /\ maxArg' = maxResults
       /\ queryWords' = searchWords(q)
       /\ scores' = searchScores(index, q)
       /\ results' = search(problems, index, q, maxResults)
       /\ twin' = [twin EXCEPT
                     !.results = search(twin.problems, twin.index, q, maxResults)]
  /\ lastOp' = "search"
  /\ UNCHANGED <<engine, problems, index, isLoading, suggestions, stats, served>>
  /\ UNCHANGED calls

\* The same autocomplete(q, n) is put to both engines.
TwinAutocomplete ==
  /\ engine = "Ready"
  /\ lastOp = "none"
  /\ \E q \in TwinQueries, maxSuggestions \in Bounds :
       /\ query' = q
       /\ maxArg' = maxSuggestions
       /\ suggestions' = autocomplete(problems, q, maxSuggestions)
       /\ twin' = [twin EXCEPT
                     !.suggestions = autocomplete(twin.problems, q, maxSuggestions)]
  /\ lastOp' = "autocomplete"
  /\ UNCHANGED <<engine, problems, index, isLoading, queryWords, scores,
                 results, stats, served>>
  /\ UNCHANGED calls

\* Both returned values go out of use.
TwinDiscard ==
  /\ lastOp # "none"
  /\ lastOp' = "none"
  /\ query' = <<>>
  /\ maxArg' = 0
  /\ queryWords' = <<>>
  /\ scores' = <<>>
  /\ results' = <<>>
  /\ suggestions' = <<>>
  /\ twin' = [twin EXCEPT !.results = <<>>, !.suggestions = <<>>]
  /\ UNCHANGED <<engine, problems, index, isLoading, stats, served>>
  /\ UNCHANGED calls

TwinNext ==
  \/ TwinConstruct
  \/ TwinServe1
  \/ TwinServe2
  \/ TwinSearch
  \/ TwinAutocomplete
  \/ TwinDiscard

TwinSpec == Init /\ [][TwinNext]_vars

\* ------------------------------------------------------------------------
\* The scenario: two records, queries typed one character at a time
\* ------------------------------------------------------------------------
ScenarioConstruct ==
  /\ engine = "Uninitialized"
  /\ isLoading
  /\ problems' = ScenarioProblems
  /\ index' = buildIndex(ScenarioProblems)
  /\ engine' = "Ready"
  /\ isLoading' = FALSE
  /\ UNCHANGED <<query, lastOp, maxArg, queryWords, scores, results,
                 suggestions, stats, twin, served>>
  /\ UNCHANGED calls

ScenarioType ==
  /\ lastOp = "none"
  /\ \E q \in ScenarioQueries :
       /\ Len(query) < Len(q)
       /\ query = SubSeq(q, 1, Len(query))
       /\ query' = SubSeq(q, 1, Len(query) + 1)
  /\ UNCHANGED <<engine, problems, index, isLoading, lastOp, maxArg, queryWords,
                 scores, results, suggestions, stats, twin, served>>
  /\ UNCHANGED calls

ScenarioSearch ==
  /\ engine = "Ready"
  /\ lastOp = "none"
  /\ \E maxResults \in ScenarioBounds :
       /\ maxArg' = maxResults
       /\ results' = search(problems, index, query, maxResults)
  /\ queryWords' = searchWords(query)
  /\ scores' = searchScores(index, query)
  /\ lastOp' = "search"
  /\ suggestions' = <<>>
  /\ stats' = NoStats
  /\ UNCHANGED <<engine, problems, index, isLoading, query, twin, served>>
  /\ UNCHANGED calls

ScenarioAutocomplete ==
  /\ engine = "Ready"
  /\ lastOp = "none"
  /\ \E maxSuggestions \in ScenarioBounds :
       /\ maxArg' = maxSuggestions
       /\ suggestions' = autocomplete(problems, query, maxSuggestions)
  /\ lastOp' = "autocomplete"
  /\ queryWords' = <<>>
  /\ scores' = <<>>
  /\ results' = <<>>
  /\ stats' = NoStats
  /\ UNCHANGED <<engine, problems, index, isLoading, query, twin, served>>
  /\ UNCHANGED calls

ScenarioNext ==
  \/ ScenarioConstruct
  \/ ScenarioType
  \/ ClearQuery
  \/ ScenarioSearch
  \/ ScenarioAutocomplete
  \/ GetStats
  \/ Discard

ScenarioSpec == Init /\ [][ScenarioNext]_vars

\* ------------------------------------------------------------------------
\* The tokenizer alone
\* ------------------------------------------------------------------------
TokenizerInit ==
  /\ engine = "Uninitialized"
  /\ problems = <<>>
  /\ index = <<>>
  /\ isLoading = TRUE
  /\ query \in Texts
  /\ lastOp = "none"
  /\ maxArg = 0
  /\ queryWords = <<>>
  /\ scores = <<>>
  /\ results = <<>>
  /\ suggestions = <<>>
  /\ stats = NoStats
  /\ twin = NoTwin
  /\ served = <<<<>>, <<>>>>
  /\ calls = [c \in CallIds |-> NoCall]

Tokenize ==
  /\ lastOp = "none"
  /\ queryWords' = tokenize(query)
  /\ lastOp' = "tokenize"
  /\ UNCHANGED <<engine, problems, index, isLoading, query, maxArg, scores,
                 results, suggestions, stats, twin, served>>
  /\ UNCHANGED calls

TokenizerNext == Tokenize

TokenizerSpec == TokenizerInit /\ [][TokenizerNext]_vars

\* ------------------------------------------------------------------------
\* Several calls at a time on one engine
\* ------------------------------------------------------------------------
\* A host with threads runs the statements of search and autocomplete of
\* different calls in any order.  A call is cut at its loops: the guard and
\* tokenize; one rule of the forEach body for one query word; each of the two
\* scans of autocomplete; the final map, sort and slice.

\* search: the guard, tokenize, new Map(); autocomplete: the guard,
\* toLowerCase, new Set().
CallBegin(c) ==
  /\ engine = "Ready"
  /\ calls[c].pc = "idle"
  /\ \E call \in ConcurrentCalls :
       calls' = [calls EXCEPT ![c] =
         [NoCall EXCEPT
            !.kind = call.kind,
            !.query = call.query,
            !.max = call.max,
            !.words = IF call.kind = "search" THEN searchWords(call.query)
                      ELSE <<>>,
            !.pc = IF Trim(call.query) = <<>> THEN "done"
                   ELSE IF call.kind = "autocomplete" THEN "titles"
                   ELSE IF searchWords(call.query) = <<>> THEN "finishing"
                   ELSE "scoring"]]
  /\ UNCHANGED <<engine, problems, index, isLoading, query, lastOp, maxArg,
                 queryWords, scores, results, suggestions, stats, twin, served>>
\* One rule for one query word, into an accumulator all calls share.
CallStepSharedScores(c) ==
  /\ calls[c].pc = "scoring"
  /\ LET r == calls[c]
         word == r.words[r.w]
         shared == calls[1].scores
         sc == CASE r.rule = 0 -> ExactMatch(shared, index, word)
                 [] r.rule = 1 -> PrefixMatch(shared, index, 1, word)
                 [] r.rule = 2 -> ContainsMatch(shared, index, 1, word)
         last == r.rule = 2 /\ r.w = Len(r.words)
     IN calls' = [calls EXCEPT ![c] =
          [r EXCEPT !.scores = sc,
                    !.rule = IF r.rule = 2 THEN 0 ELSE r.rule + 1,
                    !.w = IF r.rule = 2 THEN r.w + 1 ELSE r.w,
                    !.pc = IF last THEN "finishing" ELSE "scoring"]]
  /\ UNCHANGED <<engine, problems, index, isLoading, query, lastOp, maxArg,
                 queryWords, scores, results, suggestions, stats, twin, served>>
\* One rule of the body of queryWords.forEach for one word, into the call's
\* own scores.
CallStep(c) ==
  /\ calls[c].pc = "scoring"
  /\ LET r == calls[c]
         word == r.words[r.w]
         sc == CASE r.rule = 0 -> ExactMatch(r.scores, index, word)
                 [] r.rule = 1 -> PrefixMatch(r.scores, index, 1, word)
                 [] r.rule = 2 -> ContainsMatch(r.scores, index, 1, word)
         last == r.rule = 2 /\ r.w = Len(r.words)
     IN calls' = [calls EXCEPT ![c] =
          [r EXCEPT !.scores = sc,
                    !.rule = IF r.rule = 2 THEN 0 ELSE r.rule + 1,
                    !.w = IF r.rule = 2 THEN r.w + 1 ELSE r.w,
                    !.pc = IF last THEN "finishing" ELSE "scoring"]]
  /\ UNCHANGED <<engine, problems, index, isLoading, query, lastOp, maxArg,
                 queryWords, scores, results, suggestions, stats, twin, served>>
\* autocomplete: the scan of the titles.
CallScanTitles(c) ==
  /\ calls[c].pc = "titles"
  /\ calls' = [calls EXCEPT
       ![c].suggestions = MatchingTitles(@, problems, ToLowerCase(calls[c].query)),
       ![c].pc = "topics"]
  /\ UNCHANGED <<engine, problems, index, isLoading, query, lastOp, maxArg,
                 queryWords, scores, results, suggestions, stats, twin, served>>
\* autocomplete: the scan of the topics.
CallScanTopics(c) ==
  /\ calls[c].pc = "topics"
  /\ calls' = [calls EXCEPT
       ![c].suggestions = MatchingTopics(@, problems, ToLowerCase(calls[c].query)),
       ![c].pc = "finishing"]
  /\ UNCHANGED <<engine, problems, index, isLoading, query, lastOp, maxArg,
                 queryWords, scores, results, suggestions, stats, twin, served>>
\* search: map, sort, slice, return; autocomplete: Array.from, slice, return.
CallEnd(c) ==
  /\ calls[c].pc = "finishing"
  /\ calls' = [calls EXCEPT
       ![c].out = IF calls[c].kind = "search"
                  THEN Slice0(SortByScore(MapResults(problems, calls[c].scores)),
                              calls[c].max)
                  ELSE Slice0(calls[c].suggestions, calls[c].max),
       ![c].pc = "done"]
  /\ UNCHANGED <<engine, problems, index, isLoading, query, lastOp, maxArg,
                 queryWords, scores, results, suggestions, stats, twin, served>>
\* The caller has taken the returned value.
CallReturn(c) ==
  /\ calls[c].pc = "done"
  /\ calls' = [calls EXCEPT ![c] = NoCall]
  /\ UNCHANGED <<engine, problems, index, isLoading, query, lastOp, maxArg,
                 queryWords, scores, results, suggestions, stats, twin, served>>
ConcurrentNext ==
  \/ Construct
  \/ \E c \in CallIds : CallBegin(c)
  \/ \E c \in CallIds : CallStep(c)
  \/ \E c \in CallIds : CallScanTitles(c)
  \/ \E c \in CallIds : CallScanTopics(c)
  \/ \E c \in CallIds : CallEnd(c)
  \/ \E c \in CallIds : CallReturn(c)

ConcurrentSpec == Init /\ [][ConcurrentNext]_vars

\* ------------------------------------------------------------------------
\* Vocabulary of the properties
\* ------------------------------------------------------------------------
Positions == 0..(Len(problems) - 1)

IsWordChar(c) == c \in LowerAlnum

\* The tokens of a text: the maximal runs of a-z and 0-9 of its lowercase form.
TokenSet(text) ==
  LET l == ToLowerCase(text)
  IN { SubSeq(l, i, j) : <<i, j>> \in
         { r \in (1..Len(l)) \X (1..Len(l)) :
             /\ r[1] <= r[2]
             /\ \A m \in r[1]..r[2] : IsWordChar(l[m])
             /\ (r[1] = 1 \/ ~IsWordChar(l[r[1] - 1]))
             /\ (r[2] = Len(l) \/ ~IsWordChar(l[r[2] + 1])) } }

\* The keys the index is to hold a record under.
KeysOf(problem) ==
  TokenSet(problem.title)
    \cup UNION { TokenSet(problem.topics[j]) : j \in 1..Len(problem.topics) }
    \cup { ToLowerCase(DifficultyName(problem.difficulty)) }
    \cup { problem.frontend_id }

IndexKeys == { index[e].key : e \in 1..Len(index) }

Under(pos, key) ==
  \E e \in 1..Len(index) : index[e].key = key /\ SeqHas(index[e].indices, pos)

NoRepeats(s) == \A i, j \in 1..Len(s) : s[i] = s[j] => i = j

RECURSIVE SumSeq(_)
SumSeq(s) == IF s = <<>> THEN 0 ELSE Head(s) + SumSeq(Tail(s))

\* C1: once built, every index key maps to a non-empty set of record
\* positions, and position i is under key t exactly when t is a token of
\* record i's title or of one of its topics, or its lowercased difficulty
\* name, or its identifier string verbatim.
IndexInvariant ==
  engine = "Ready" =>
    /\ NoRepeats([e \in 1..Len(index) |-> index[e].key])
    /\ \A e \in 1..Len(index) :
         /\ index[e].indices # <<>>
         /\ NoRepeats(index[e].indices)
         /\ \A m \in 1..Len(index[e].indices) : index[e].indices[m] \in Positions
    /\ \A i \in Positions :
         LET expected == KeysOf(problems[i + 1])
         IN \A t \in IndexKeys \cup expected : Under(i, t) <=> t \in expected

\* A built index holding an identifier with an upper-case letter, a
\* difficulty name and the tokens of a punctuated title.
IndexBuilt ==
  /\ engine = "Ready"
  /\ Len(problems) = 2
  /\ Under(0, <<"h", "a", "r", "d">>)
  /\ Under(0, <<"b">>)
  /\ Under(1, <<"a", "b", "a">>)
  /\ Under(1, <<"B">>)
  /\ ~Under(1, <<"b">>)

\* ------------------------------------------------------------------------
\* Scoring
\* ------------------------------------------------------------------------
QueryWords == tokenize(query)

\* What one occurrence of query token w earns a record for being under key k.
RuleWeight(k, w) ==
  IF k = w THEN 10
  ELSE IF StartsWith(k, w) THEN 5
  ELSE IF Includes(k, w) THEN 2
  ELSE 0

ExpectedScore(pos) ==
  SumSeq([n \in 1..(Len(QueryWords) * Len(index)) |->
            LET t == ((n - 1) \div Len(index)) + 1
                e == ((n - 1) % Len(index)) + 1
            IN IF SeqHas(index[e].indices, pos)
               THEN RuleWeight(index[e].key, QueryWords[t]) ELSE 0])

AccumulatedScore(pos) ==
  IF HasScore(scores, pos)
  THEN scores[CHOOSE i \in 1..Len(scores) : scores[i].idx = pos].score
  ELSE 0

\* C2: the score search accumulates for a record position is the sum, over
\* every occurrence of a token in the tokenized query and every index key the
\* position is under, of 10 for an equal key, 5 for a key the token is a
\* proper prefix of, 2 for a key that contains the token without starting
\* with it; for one token and one key at most one of the three rules fires.
ScoreIsSumOfRules ==
  lastOp = "search" =>
    /\ NoRepeats([i \in 1..Len(scores) |-> scores[i].idx])
    /\ \A i \in 1..Len(scores) : scores[i].idx \in Positions
    /\ \A pos \in Positions : AccumulatedScore(pos) = ExpectedScore(pos)
    /\ \A t \in 1..Len(QueryWords) : \A k \in IndexKeys :
         LET w == QueryWords[t]
         IN /\ ~(PrefixCond(k, w) /\ ContainsCond(k, w))
            /\ k = w => ~PrefixCond(k, w) /\ ~ContainsCond(k, w)

\* A two-token query has scored a record through all three rules.
ScoredByAllRules ==
  /\ lastOp = "search"
  /\ Len(QueryWords) = 2
  /\ \E i \in 1..Len(scores) :
       /\ Len(scores[i].matchedFields) = 3
       /\ scores[i].score > 17

\* ------------------------------------------------------------------------
\* Ranking
\* ------------------------------------------------------------------------
HasLabel(r, label) == SeqHas(r.matchedFields, label)

\* The positions of the record a result carries (several when the record
\* sequence repeats a record).
PositionsOf(r) == { pos \in Positions : problems[pos + 1] = r.problem }

RankedAtOrAbove(i, j) == i < j \/ results[i].score = results[j].score

PrefixKeys(pos, w) ==
  Cardinality({ e \in 1..Len(index) :
                  SeqHas(index[e].indices, pos) /\ PrefixCond(index[e].key, w) })

ContainsKeys(pos, w) ==
  Cardinality({ e \in 1..Len(index) :
                  SeqHas(index[e].indices, pos) /\ ContainsCond(index[e].key, w) })

\* C3 as stated: for a single-token query w, a returned record under the
\* exact key w is ranked at or above every returned record matched only
\* through the prefix or the contains rule, and a record matched only by
\* prefix at or above one matched only by contains.
ExactBeatsPrefixBeatsContains ==
  (lastOp = "search" /\ Len(QueryWords) = 1) =>
    LET w == QueryWords[1]
    IN \A i, j \in 1..Len(results) :
         \A pi \in PositionsOf(results[i]) : \A pj \in PositionsOf(results[j]) :
           /\ (Under(pi, w) /\ ~Under(pj, w)) => RankedAtOrAbove(i, j)
           /\ (/\ ~Under(pi, w) /\ PrefixKeys(pi, w) > 0 /\ ContainsKeys(pi, w) = 0
               /\ ~Under(pj, w) /\ PrefixKeys(pj, w) = 0 /\ ContainsKeys(pj, w) > 0)
                => RankedAtOrAbove(i, j)

\* C3 amended: for a single-token query w, a returned record under the exact
\* key w is ranked at or above every returned record that is not under w and
\* matched w through one index key only (one prefix key or one contains key),
\* and a record matched only through one prefix key is ranked at or above a
\* record matched only through one contains key.
ExactBeatsSingleKeyMatch ==
  (lastOp = "search" /\ Len(QueryWords) = 1) =>
    LET w == QueryWords[1]
    IN \A i, j \in 1..Len(results) :
         \A pi \in PositionsOf(results[i]) : \A pj \in PositionsOf(results[j]) :
           /\ (/\ Under(pi, w)
               /\ ~Under(pj, w) /\ PrefixKeys(pj, w) + ContainsKeys(pj, w) = 1)
                => RankedAtOrAbove(i, j)
           /\ (/\ ~Under(pi, w) /\ PrefixKeys(pi, w) = 1 /\ ContainsKeys(pi, w) = 0
               /\ ~Under(pj, w) /\ PrefixKeys(pj, w) = 0 /\ ContainsKeys(pj, w) = 1)
                => RankedAtOrAbove(i, j)

\* A single-token search has returned a record under the exact key ahead of
\* a record matched through one prefix key only.
ExactAheadOfSinglePrefix ==
  /\ lastOp = "search"
  /\ Len(QueryWords) = 1
  /\ Len(results) = 2
  /\ HasLabel(results[1], "exact")
  /\ results[2].matchedFields = <<"prefix">>
  /\ results[2].score = 5
  /\ \A pj \in PositionsOf(results[2]) :
       PrefixKeys(pj, QueryWords[1]) + ContainsKeys(pj, QueryWords[1]) = 1

\* ------------------------------------------------------------------------
\* Bounds on what is returned
\* ------------------------------------------------------------------------
\* C4: with a positive bound k, search returns at most k entries and
\* autocomplete at most k suggestions, however many records match.
ResultBound ==
  /\ (lastOp = "search" /\ maxArg > 0) => Len(results) <= maxArg
  /\ (lastOp = "autocomplete" /\ maxArg > 0) => Len(suggestions) <= maxArg

\* A search with more candidates than its bound has returned exactly the
\* bound.
ResultsTruncated ==
  /\ lastOp = "search"
  /\ maxArg = 1
  /\ Len(scores) = 2
  /\ Len(results) = 1

\* C5: with a zero or negative bound, search and autocomplete never return a
\* non-empty result.
NonPositiveBoundReturnsNothing ==
  /\ (lastOp = "search" /\ maxArg <= 0) => results = <<>>
  /\ (lastOp = "autocomplete" /\ maxArg <= 0) => suggestions = <<>>

\* ------------------------------------------------------------------------
\* Queries that match nothing
\* ------------------------------------------------------------------------
IsBlank(q) == \A i \in 1..Len(q) : q[i] \in Whitespace

NoWordChar(q) == \A i \in 1..Len(q) : ~IsWordChar(LowerOf(q[i]))

NoKeyMatches(q) ==
  \A w \in TokenSet(q) : \A k \in IndexKeys : k # w /\ ~Includes(k, w)

\* C6: with a positive bound, search and autocomplete return an empty
\* sequence for an empty or whitespace-only query; search also returns an
\* empty sequence for a query without tokens and for a query none of whose
\* tokens equals, starts or is contained in an index key.
UnmatchedQueryReturnsEmpty ==
  /\ (lastOp = "search" /\ maxArg > 0 /\ IsBlank(query)) => results = <<>>
  /\ (lastOp = "autocomplete" /\ maxArg > 0 /\ IsBlank(query)) => suggestions = <<>>
  /\ (lastOp = "search" /\ maxArg > 0 /\ NoWordChar(query)) => results = <<>>
  /\ (lastOp = "search" /\ maxArg > 0 /\ NoKeyMatches(query)) => results = <<>>

\* Autocomplete has answered a whitespace-only query over records one of
\* whose titles contains that whitespace.
BlankAutocompleteAnswered ==
  /\ lastOp = "autocomplete"
  /\ maxArg > 0
  /\ query = <<" ">>
  /\ \E pos \in Positions : Includes(problems[pos + 1].title, query)
  /\ suggestions = <<>>

\* ------------------------------------------------------------------------
\* Order of the results
\* ------------------------------------------------------------------------
Min(a, b) == IF a < b THEN a ELSE b

\* C7: with a positive bound k, the results are in non-increasing score
\* order, there are min(k, number of candidates) of them, each is the entry
\* of a different candidate position, and no candidate left out scores more
\* than a returned one.
ResultsAreTopOfRanking ==
  (lastOp = "search" /\ maxArg > 0) =>
    /\ Len(results) = Min(maxArg, Len(scores))
    /\ \A i, j \in 1..Len(results) : i < j => results[i].score >= results[j].score
    /\ \E f \in [1..Len(results) -> 1..Len(scores)] :
         /\ \A i, j \in 1..Len(results) : f[i] = f[j] => i = j
         /\ \A i \in 1..Len(results) : results[i] = ToResult(problems, scores[f[i]])
         /\ \A c \in 1..Len(scores) :
              (\A i \in 1..Len(results) : f[i] # c) =>
                \A i \in 1..Len(results) : scores[c].score <= results[i].score

\* A search whose best candidate entered the accumulator last has returned
\* it alone, leaving a lower-scored candidate out.
BestCandidateKept ==
  /\ lastOp = "search"
  /\ maxArg = 1
  /\ Len(scores) = 2
  /\ scores[1].score < scores[2].score
  /\ Len(results) = 1
  /\ results[1].score = scores[2].score

\* ------------------------------------------------------------------------
\* Match-kind labels
\* ------------------------------------------------------------------------
Labels == {"exact", "prefix", "contains"}

RuleFired(label, pos) ==
  \E t \in 1..Len(QueryWords) : \E k \in IndexKeys :
    LET w == QueryWords[t]
    IN /\ Under(pos, k)
       /\ CASE label = "exact" -> k = w
            [] label = "prefix" -> StartsWith(k, w) /\ k # w
            [] label = "contains" -> Includes(k, w) /\ ~StartsWith(k, w)

\* C8: the matchedFields of every result of search is a non-empty list
\* without repeats of labels among exact, prefix and contains, and holds a
\* label exactly when the rule of that label fired for the record for some
\* query token.
MatchedFieldsAccurate ==
  lastOp = "search" =>
    \A i \in 1..Len(results) :
      /\ results[i].matchedFields # <<>>
      /\ NoRepeats(results[i].matchedFields)
      /\ \A m \in 1..Len(results[i].matchedFields) : results[i].matchedFields[m] \in Labels
      /\ PositionsOf(results[i]) # {}
      /\ \A pos \in PositionsOf(results[i]) : \A label \in Labels :
           HasLabel(results[i], label) <=> RuleFired(label, pos)

\* A two-token search has returned a record that two tokens matched by
\* prefix and by containment, and never exactly.
PrefixAndContainsLabelled ==
  /\ lastOp = "search"
  /\ Len(QueryWords) = 2
  /\ \E i \in 1..Len(results) :
       /\ results[i].score > 7
       /\ HasLabel(results[i], "prefix")
       /\ HasLabel(results[i], "contains")
       /\ ~HasLabel(results[i], "exact")

\* ------------------------------------------------------------------------
\* Autocomplete
\* ------------------------------------------------------------------------
RECURSIVE TopicsFrom(_)
TopicsFrom(i) ==
  IF i > Len(problems) THEN <<>> ELSE problems[i].topics \o TopicsFrom(i + 1)

\* Every title in record order, then every topic in record and topic order.
Candidates == [i \in 1..Len(problems) |-> problems[i].title] \o TopicsFrom(1)

Matches(text) == Includes(ToLowerCase(text), ToLowerCase(query))

\* The candidates that match and did not occur earlier.
Kept ==
  { i \in 1..Len(Candidates) :
      /\ Matches(Candidates[i])
      /\ \A j \in 1..(i - 1) : Candidates[j] # Candidates[i] }

\* C9: for a non-blank query and a positive bound n, autocomplete returns the
\* first n of: the titles whose lowercase form contains the lowercased query,
\* in record order, then the topics that do, in record and topic order, each
\* string verbatim and only at its first occurrence.
AutocompleteIsPrefixOfMatches ==
  (lastOp = "autocomplete" /\ ~IsBlank(query) /\ maxArg > 0) =>
    /\ Len(suggestions) = Min(maxArg, Cardinality(Kept))
    /\ \A m \in 1..Len(suggestions) :
         \E i \in Kept :
           /\ Cardinality({ j \in Kept : j < i }) = m - 1
           /\ suggestions[m] = Candidates[i]

\* Autocomplete of a lower-case query has returned an upper-case title, once
\* though a topic repeats it, then a second title, and has left a matching
\* topic out.
SuggestionsTruncated ==
  /\ lastOp = "autocomplete"
  /\ query = <<"a">>
  /\ maxArg = 2
  /\ Cardinality(Kept) = 3
  /\ Len(Candidates) > 3
  /\ suggestions = << <<"A">>, <<"b", "-", " ", "a">> >>

MatchingTitlePositions == { i \in 1..Len(problems) : Matches(problems[i].title) }

FirstAt(s, x) == CHOOSE i \in 1..Len(s) : s[i] = x /\ \A j \in 1..(i - 1) : s[j] # x

TitlesInRecordOrder ==
  \A i, j \in MatchingTitlePositions :
    i < j =>
      /\ SeqHas(suggestions, problems[i].title)
      /\ SeqHas(suggestions, problems[j].title)
      /\ FirstAt(suggestions, problems[i].title) <= FirstAt(suggestions, problems[j].title)

\* C10 as stated, for the non-blank queries and positive bounds autocomplete
\* is specified for: when the titles of two records both contain the query,
\* autocomplete returns both titles in record order, and what it returns has
\* no repeated string.
AutocompleteReturnsBothTitles ==
  (lastOp = "autocomplete" /\ ~IsBlank(query) /\ maxArg > 0) =>
    /\ TitlesInRecordOrder
    /\ NoRepeats(suggestions)

\* The first record that carries a title.
FirstRecord(t) ==
  CHOOSE i \in 1..Len(problems) :
    problems[i].title = t /\ \A j \in 1..(i - 1) : problems[j].title # t

TitlesInFirstRecordOrder ==
  \A i, j \in MatchingTitlePositions :
    /\ SeqHas(suggestions, problems[i].title)
    /\ SeqHas(suggestions, problems[j].title)
    /\ FirstRecord(problems[i].title) < FirstRecord(problems[j].title)
         => FirstAt(suggestions, problems[i].title) < FirstAt(suggestions, problems[j].title)

\* C10 amended: for a non-blank query and a bound of at least the number of
\* distinct matching titles, when the titles of two records both contain the
\* query (letter case ignored), autocomplete returns both titles, each title
\* placed by the first record that carries it, and what it returns has no
\* repeated string.
AutocompleteReturnsBothTitlesWithinBound ==
  (/\ lastOp = "autocomplete"
   /\ ~IsBlank(query)
   /\ maxArg >= Cardinality({ problems[i].title : i \in MatchingTitlePositions })
   /\ maxArg > 0) =>
    /\ TitlesInFirstRecordOrder
    /\ NoRepeats(suggestions)

\* Autocomplete has returned the two different matching titles of two
\* records in record order, one of them also the text of a matching topic.
BothTitlesSuggested ==
  /\ lastOp = "autocomplete"
  /\ ~IsBlank(query)
  /\ Len(problems) = 2
  /\ MatchingTitlePositions = {1, 2}
  /\ problems[1].title # problems[2].title
  /\ \E j \in 1..Len(problems[1].topics) : problems[1].topics[j] = problems[1].title
  /\ suggestions = <<problems[1].title, problems[2].title>>

\* ------------------------------------------------------------------------
\* Statistics
\* ------------------------------------------------------------------------
\* C11: getStats reports the length of the record sequence given at
\* construction as totalProblems and the number of distinct index keys as
\* indexSize, and its easy, medium and hard counts add up to totalProblems.
StatsConsistent ==
  lastOp = "getStats" =>
    /\ stats.totalProblems = Len(problems)
    /\ stats.indexSize = Cardinality(IndexKeys)
    /\ stats.difficulties.easy + stats.difficulties.medium + stats.difficulties.hard
         = stats.totalProblems

\* getStats has answered for two records of different difficulty that share
\* an index key.
StatsReported ==
  /\ lastOp = "getStats"
  /\ stats.totalProblems = 2
  /\ stats.difficulties.easy = 1
  /\ stats.difficulties.hard = 1
  /\ \E k \in IndexKeys : Under(0, k) /\ Under(1, k)

\* C12: an engine constructed from the empty record sequence has an empty
\* index, getStats reports zero for totalProblems, indexSize and the three
\* difficulty counts, and every search and autocomplete call returns the
\* empty sequence.
EmptyEngineIsValid ==
  (engine = "Ready" /\ problems = <<>>) =>
    /\ index = <<>>
    /\ lastOp = "getStats" =>
         stats = [totalProblems |-> 0, indexSize |-> 0,
                  difficulties |-> [easy |-> 0, medium |-> 0, hard |-> 0]]
    /\ lastOp = "search" => results = <<>>
    /\ lastOp = "autocomplete" => suggestions = <<>>

\* An engine over no records has answered a search for a word.
EmptyEngineSearched ==
  /\ engine = "Ready"
  /\ problems = <<>>
  /\ lastOp = "search"
  /\ queryWords = << <<"a">> >>
  /\ maxArg > 0

ReadOnlyAfterConstruction ==
  [][engine = "Ready" => (index' = index /\ problems' = problems)]_vars

\* A search for a word no key equals has returned records, and the index is
\* the one the constructor built.
IndexIntactAfterSearch ==
  /\ lastOp = "search"
  /\ results # <<>>
  /\ \E i \in 1..Len(queryWords) : ~HasKey(index, queryWords[i])
  /\ index = buildIndex(problems)

\* ------------------------------------------------------------------------
\* Scenario
\* ------------------------------------------------------------------------
TwoSum == ScenarioProblems[1]

NumberOfIslands == ScenarioProblems[2]

\* C15: with the records "Two Sum" (id "1", Easy, topics Array and Hash
\* Table) and "Number of Islands" (id "200", Medium, topic Graph),
\* search("easy", 10) returns exactly the first record with score 10 and not
\* the second, search("sum", 10) returns the first record with label exact,
\* and autocomplete("is", 10) returns exactly ["Number of Islands"].
ScenarioAnswers ==
  (problems = ScenarioProblems /\ maxArg = ScenarioBound) =>
    /\ (lastOp = "search" /\ query = <<"e", "a", "s", "y">>) =>
         /\ Len(results) = 1
         /\ results[1].problem = TwoSum
         /\ results[1].score = ExactPoints
    /\ (lastOp = "search" /\ query = <<"s", "u", "m">>) =>
         \E i \in 1..Len(results) :
           /\ results[i].problem = TwoSum
           /\ SeqHas(results[i].matchedFields, "exact")
    /\ (lastOp = "autocomplete" /\ query = <<"i", "s">>) =>
         suggestions = <<NumberOfIslands.title>>

\* search("easy", 10) has answered over the two records of the scenario.
ScenarioEasySearched ==
  /\ problems = ScenarioProblems
  /\ lastOp = "search"
  /\ query = <<"e", "a", "s", "y">>
  /\ maxArg = ScenarioBound
  /\ results # <<>>

\* ------------------------------------------------------------------------
\* Searchable fields
\* ------------------------------------------------------------------------
ReturnedAsExact(problem) ==
  \E j \in 1..Len(results) :
    /\ results[j].problem = problem
    /\ SeqHas(results[j].matchedFields, "exact")

\* C16: for every record r and a bound at least the number of records,
\* search returns r with label exact when the query is r's title, any one of
\* r's topics, r's difficulty name, or r's identifier string.
SearchableByEveryField ==
  (lastOp = "search" /\ maxArg >= Len(problems)) =>
    \A i \in 1..Len(problems) :
      query \in FieldsOf(problems[i]) => ReturnedAsExact(problems[i])

\* ------------------------------------------------------------------------
\* Typo tolerance
\* ------------------------------------------------------------------------
\* w is k with one character substituted.
OneSubstitution(w, k) ==
  /\ Len(w) = Len(k)
  /\ Cardinality({i \in 1..Len(w) : w[i] # k[i]}) = 1

\* w is k with two adjacent, different characters swapped.
OneSwap(w, k) ==
  /\ Len(w) = Len(k)
  /\ \E i \in 1..(Len(w) - 1) :
       /\ w[i] # w[i + 1]
       /\ w[i] = k[i + 1]
       /\ w[i + 1] = k[i]
       /\ \A j \in 1..Len(w) : j \notin {i, i + 1} => w[j] = k[j]

OneTypo(w, k) == OneSubstitution(w, k) \/ OneSwap(w, k)

Returned(pos) == \E j \in 1..Len(results) : results[j].problem = problems[pos + 1]

\* C17: a query word that differs from an indexed token by one typo (one
\* substituted character or two adjacent characters swapped) still returns
\* the records indexed under that token, the bound permitting.  Words of
\* one character, where a substitution leaves nothing of the word, are left
\* out.
TypoTolerant ==
  (lastOp = "search" /\ maxArg >= Len(problems)) =>
    \A n \in 1..Len(queryWords) : \A k \in IndexKeys :
      (Len(queryWords[n]) > 1 /\ OneTypo(queryWords[n], k)) =>
        \A pos \in Positions : Under(pos, k) => Returned(pos)

\* ------------------------------------------------------------------------
\* Tokenizer
\* ------------------------------------------------------------------------
\* The places of a text where a maximal run of a-z and 0-9 starts.
RunStarts(l) ==
  {i \in 1..Len(l) : IsWordChar(l[i]) /\ (i = 1 \/ ~IsWordChar(l[i - 1]))}

\* The place where the run that starts at i ends.
RunEnd(l, i) ==
  CHOOSE j \in i..Len(l) :
    /\ \A m \in i..j : IsWordChar(l[m])
    /\ (j = Len(l) \/ ~IsWordChar(l[j + 1]))

\* The maximal runs of a-z and 0-9 of a text, in order of occurrence.
RunsInOrder(l) ==
  [n \in 1..Cardinality(RunStarts(l)) |->
     LET start == CHOOSE i \in RunStarts(l) :
                    Cardinality({t \in RunStarts(l) : t < i}) = n - 1
     IN SubSeq(l, start, RunEnd(l, start))]

\* C18: for every input text the tokenizer returns the sequence, in order of
\* occurrence, of the maximal runs of letters a-z and digits 0-9 of the
\* lowercased text; every token is non-empty and has only characters a-z and
\* 0-9; every other non-whitespace character of the lowercased text, a
\* letter outside ASCII included, separates like whitespace does: the tokens
\* are those of the text before it followed by those of the text after it.
TokenizerContract ==
  lastOp = "tokenize" =>
    LET l == ToLowerCase(query)
    IN /\ queryWords = RunsInOrder(l)
       /\ \A n \in 1..Len(queryWords) :
            /\ queryWords[n] # <<>>
            /\ \A m \in 1..Len(queryWords[n]) : queryWords[n][m] \in LowerAlnum
       /\ \A m \in 1..Len(l) :
            ~IsWordChar(l[m]) =>
              queryWords = RunsInOrder(SubSeq(l, 1, m - 1))
                             \o RunsInOrder(SubSeq(l, m + 1, Len(l)))

\* A text with a letter outside ASCII between two letters has been tokenized
\* into two tokens.
TokenizedAcrossNonAscii ==
  /\ lastOp = "tokenize"
  /\ query = <<"a", "U+00C9", "B">>
  /\ queryWords = << <<"a">>, <<"b">> >>

\* ------------------------------------------------------------------------
\* Life cycle
\* ------------------------------------------------------------------------
Served == lastOp \in {"search", "autocomplete", "getStats"}

\* C19: the engine is Uninitialized or Ready and nothing else; a search,
\* autocomplete or getStats call is served only by a Ready engine whose index
\* is the one built from all the records; a Ready engine stays Ready and its
\* index is not built again; after a failed load the consumer holds no
\* engine, no index and no records, and its search yields the empty result.
TwoStateLifeCycle ==
  /\ [](engine \in {"Uninitialized", "Ready"})
  /\ [](Served => (engine = "Ready" /\ index = buildIndex(problems)))
  /\ [][engine = "Ready" => (engine' = "Ready" /\ index' = index)]_vars
  /\ []((engine = "Uninitialized" /\ ~isLoading) =>
          /\ index = <<>>
          /\ problems = <<>>
          /\ ~Served
          /\ lastOp = "handleSearch" => results = <<>>)

\* The load has failed and the consumer has searched for a word.
SearchedAfterFailedLoad ==
  /\ engine = "Uninitialized"
  /\ ~isLoading
  /\ lastOp = "handleSearch"
  /\ tokenize(query) # <<>>

\* ------------------------------------------------------------------------
\* Tie-break
\* ------------------------------------------------------------------------
\* Rule 0 is the exact rule, 1 the prefix scan, 2 the contains scan.
RuleFires(r, k, w) ==
  CASE r = 0 -> k = w
    [] r = 1 -> StartsWith(k, w) /\ k # w
    [] r = 2 -> Includes(k, w) /\ ~StartsWith(k, w)

\* The moments at which a position is given points: query tokens in order,
\* for each token the three rules in order, within a rule the keys in index
\* insertion order, within a key its positions in insertion order.
EntryMoments(pos) ==
  { ((((t - 1) * 3 + r) * (Len(index) + 1) + e) * (Len(problems) + 1)) + place :
      <<t, r, e, place>> \in
        { m \in (1..Len(queryWords)) \X (0..2) \X (1..Len(index))
                  \X (1..Len(problems)) :
            /\ m[4] <= Len(index[m[3]].indices)
            /\ index[m[3]].indices[m[4]] = pos
            /\ RuleFires(m[2], index[m[3]].key, queryWords[m[1]]) } }

\* The moment a position first entered the score accumulator.
FirstEntry(pos) ==
  CHOOSE x \in EntryMoments(pos) : \A y \in EntryMoments(pos) : x <= y

\* C20: the score accumulator holds the positions in the order they first
\* entered it (query tokens in order; for each token the exact rule, then
\* the prefix scan, then the contains scan; keys in index insertion order),
\* and of two returned records with equal score the one that entered first
\* comes first in the result.
TieBreakByAccumulationOrder ==
  lastOp = "search" =>
    /\ \A i, j \in 1..Len(scores) :
         i < j => FirstEntry(scores[i].idx) < FirstEntry(scores[j].idx)
    /\ \E f \in [1..Len(results) -> 1..Len(scores)] :
         /\ \A i \in 1..Len(results) :
              results[i] = ToResult(problems, scores[f[i]])
         /\ \A i, j \in 1..Len(results) :
              i < j =>
                /\ f[i] # f[j]
                /\ results[i].score = results[j].score => f[i] < f[j]

\* Two different records tie, and the one later in the record sequence is
\* returned first because it entered the accumulator first.
TieWonByLaterRecord ==
  /\ lastOp = "search"
  /\ Len(problems) = 2
  /\ Len(results) = 2
  /\ results[1].score = results[2].score
  /\ problems[1] # problems[2]
  /\ results[1].problem = problems[2]
  /\ results[2].problem = problems[1]

\* ------------------------------------------------------------------------
\* Scored positions
\* ------------------------------------------------------------------------
\* C21: every entry search returns has score at least 2; a record position
\* is in the score accumulator only if one of the three rules matched it for
\* some query token; each record position appears at most once in the
\* result.
NoZeroScoreResult ==
  lastOp = "search" =>
    /\ \A i \in 1..Len(results) : results[i].score >= ContainsPoints
    /\ \A e \in 1..Len(scores) :
         /\ scores[e].idx \in Positions
         /\ \E label \in Labels : RuleFired(label, scores[e].idx)
    /\ NoRepeats([e \in 1..Len(scores) |-> scores[e].idx])
    /\ \E f \in [1..Len(results) -> 1..Len(scores)] :
         /\ \A i \in 1..Len(results) :
              results[i] = ToResult(problems, scores[f[i]])
         /\ \A i, j \in 1..Len(results) : f[i] = f[j] => i = j

\* A search has returned a record that one contains match alone brought in,
\* and has left another record of the index out.
LowestScoreReturned ==
  /\ lastOp = "search"
  /\ Len(problems) = 2
  /\ Len(results) = 1
  /\ maxArg = 2
  /\ results[1].score = ContainsPoints

\* ------------------------------------------------------------------------
\* Calls at the same time
\* ------------------------------------------------------------------------
\* What a call returns when it runs alone.
Alone(r) ==
  IF r.kind = "search" THEN search(problems, buildIndex(problems), r.query, r.max)
  ELSE autocomplete(problems, r.query, r.max)

\* C22: when the steps of two or more search and autocomplete calls on one
\* Ready engine are interleaved in any order, each call returns exactly what
\* it returns when run alone, and the shared index stays as it was built.
ConcurrentCallsIsolated ==
  /\ engine = "Ready" => index = buildIndex(problems)
  /\ \A c \in CallIds : calls[c].pc = "done" => calls[c].out = Alone(calls[c])

\* One search has returned records while another search, begun before the
\* first returned, stands between its scoring loop and its return with
\* records in its own accumulator.
TwoSearchesInFlight ==
  /\ calls[1].pc = "done"
  /\ calls[1].kind = "search"
  /\ calls[1].out # <<>>
  /\ calls[2].pc = "finishing"
  /\ calls[2].kind = "search"
  /\ calls[2].query # calls[1].query
  /\ Len(calls[2].scores) = 2

\* ------------------------------------------------------------------------
\* Query normalization
\* ------------------------------------------------------------------------
\* The words joined by single spaces.
RECURSIVE JoinWords(_)
JoinWords(words) ==
  IF words = <<>> THEN <<>>
  ELSE IF Len(words) = 1 THEN Head(words)
  ELSE Head(words) \o <<" ">> \o JoinWords(Tail(words))

\* The plain form of a query: its tokens, lowercase, one space between them.
\* Two queries tokenize to the same sequence exactly when they have the same
\* plain form.
PlainForm(q) == JoinWords(tokenize(q))

\* C23: search returns for a query what it returns for the plain form of the
\* query, so that two queries with the same token sequence get identical
\* results: letter case, punctuation between words, and leading, trailing
\* or repeated whitespace never change the result.
QueryNormalized ==
  lastOp = "search" =>
    /\ tokenize(PlainForm(query)) = tokenize(query)
    /\ results = search(problems, index, PlainForm(query), maxArg)

\* A search for a query with a capital, a hyphen and a leading space has
\* returned records.
UnnormalizedQuerySearched ==
  /\ lastOp = "search"
  /\ query = <<" ", "B", "-">>
  /\ PlainForm(query) = <<"b">>
  /\ results # <<>>

====
